---- MODULE Spec2Model ----
(***************************************************************************)
(* Model of integrated_main.py: the Yahoo news scraper that appends search *)
(* results to the SOURCE sheet ("Yahoo"), transfers the rows of the        *)
(* editorial day to the day's tab and writes article bodies and comments   *)
(* to it.                                                                  *)
(*                                                                         *)
(* Conventions.  A comment text is represented by a natural number; the    *)
(* characters of text number n are CommentText(n), which is injective, so  *)
(* two texts are equal exactly when their numbers are.  A body text is a   *)
(* natural number too: 0 is the empty text.  A cell holding a JSON string  *)
(* is the sequence of its characters.  A point in time is a number of      *)
(* seconds; every year has DaysPerYear days.                               *)
(***************************************************************************)
EXTENDS Integers, Sequences, FiniteSets, TLC

VARIABLES
    \* ---- the pipeline (main and the sheets)
    now,            \* the wall clock, seconds
    yahooExists,    \* whether the SOURCE worksheet "Yahoo" exists
    yahoo,          \* its rows, row 1 first
    tabs,           \* the day tabs: tab name -> [hdr, rows]
    pc,             \* main's position
    kwi,            \* main: index of the next keyword to search
    all_articles,   \* main: the concatenated search results
    attempt,        \* write_news_list_to_source: the loop variable
    ws,             \* main: the name of the day tab in use
    added,          \* main: what transfer_a_to_e returned
    promo,          \* the last transfer_a_to_e call of the run: its now, its
                    \* tab, the SOURCE rows it appended and their parsed dt
    enr,            \* the last write_bodies_and_comments call of the run:
                    \* the urls it read, the sites it met, its rows_data,
                    \* the width of the header it found
    web,            \* the article sites that exist: what a fetch can meet
    lastAppend,     \* the last write_news_list_to_source call that returned:
                    \* its articles and the number of rows it appended
    \* ---- fetch_article_pages, one call
    bsrc,           \* the site: what each page request gives
    bpage,          \* the loop variable page
    bodies,         \* the accepted page texts
    bpc,            \* "loop", "returned" or "raised"
    bfetched,       \* how many requests.get calls were made
    \* ---- fetch_comments_with_selenium, one call
    csrc,           \* the site: what each comment page renders
    cpage,          \* the variable page
    comments,       \* the accumulated comments
    last_tail,      \* the last comment of the previous page, or None
    cpc,            \* "start", "loop", "returned" or "raised"
    cstop,          \* which exit the call took
    \* ---- chunk and json.dumps, one call
    pin,            \* the comments to pack
    pcells,         \* json_per_page
    ppc             \* "idle", "call" or "done"

pipeVars == <<now, yahooExists, yahoo, tabs, pc, kwi, all_articles, attempt,
              ws, added, promo, enr, web, lastAppend>>
bodyVars == <<bsrc, bpage, bodies, bpc, bfetched>>
commVars == <<csrc, cpage, comments, last_tail, cpc, cstop>>
packVars == <<pin, pcells, ppc>>
vars == <<pipeVars, bodyVars, commVars, packVars>>

(***************************************************************************)
(* Program constants.                                                      *)
(***************************************************************************)
MAX_BODY_PAGES == 10
MAX_TOTAL_COMMENTS == 5000
PAGE_CAPACITY == 10
MAX_ATTEMPTS == 5
NUM_KEYWORDS == 3

(***************************************************************************)
(* Sequence helpers.                                                       *)
(***************************************************************************)
Range(s) == {s[i] : i \in 1..Len(s)}

Min(a, b) == IF a <= b THEN a ELSE b

Max(a, b) == IF a >= b THEN a ELSE b

\* s[:n] of Python, n >= 0
Take(s, n) == SubSeq(s, 1, Min(n, Len(s)))

\* s[n:] of Python, n >= 0
Drop(s, n) == SubSeq(s, n + 1, Len(s))

RECURSIVE Flatten(_)
Flatten(ss) == IF ss = <<>> THEN <<>> ELSE Head(ss) \o Flatten(Tail(ss))

\* n copies of x
Repeat(x, n) == [i \in 1..n |-> x]

(***************************************************************************)
(* chunk(lst, size) and json.dumps(pg, ensure_ascii=False).                *)
(***************************************************************************)
QUOTE == "\""
BSL == "\\"
LF == "LF"     \* the line feed character

RECURSIVE Digits(_)
Digits(n) ==
    LET d == <<"0", "1", "2", "3", "4", "5", "6", "7", "8", "9">>
    IN  IF n < 10 THEN <<d[n + 1]>> ELSE Digits(n \div 10) \o <<d[(n % 10) + 1]>>

\* The characters of comment text number n.  The leading characters vary
\* with n and include the ones JSON escapes; the digits make it injective.
CommentText(n) ==
    LET lead == << <<"a">>, <<QUOTE, ",", " ", QUOTE>>, <<BSL, "n">>,
                   <<"]", LF, BSL>> >>
    IN  lead[(n % 4) + 1] \o Digits(n)

\* chunk(lst, size), lines 108-111
ChunkNoRemainder(lst, size) ==
    IF size <= 0 THEN <<lst>>
    ELSE [k \in 1..(Len(lst) \div size) |->
            SubSeq(lst, (k - 1) * size + 1, k * size)]

chunk(lst, size) ==
    IF size <= 0 THEN <<lst>>
    ELSE [k \in 1..((Len(lst) + size - 1) \div size) |->
            SubSeq(lst, (k - 1) * size + 1, Min(k * size, Len(lst)))]

\* json's escaping of one character of a string
EscapeChar(c) ==
    IF c = QUOTE THEN <<BSL, QUOTE>>
    ELSE IF c = BSL THEN <<BSL, BSL>>
    ELSE IF c = LF THEN <<BSL, "n">>
    ELSE <<c>>

EncodeString(s) ==
    <<QUOTE>> \o Flatten([i \in 1..Len(s) |-> EscapeChar(s[i])]) \o <<QUOTE>>

\* json.dumps of a list of strings: ["s1", "s2", ...]
JsonDumpsTexts(texts) ==
    <<"[">>
    \o Flatten([i \in 1..Len(texts) |->
                  (IF i = 1 THEN <<>> ELSE <<",", " ">>) \o EncodeString(texts[i])])
    \o <<"]">>

\* json.dumps(pg, ensure_ascii=False) as line 431 calls it
JsonDumps(pg) == JsonDumpsTexts([i \in 1..Len(pg) |-> CommentText(pg[i])])

\* Lines 430-431: the comment cells of one row
PackComments(cs) ==
    LET comment_pages == chunk(cs, PAGE_CAPACITY)
    IN  [k \in 1..Len(comment_pages) |-> JsonDumps(comment_pages[k])]

(***************************************************************************)
(* Decoding a cell, as a reader of the sheet does it with a JSON parser:   *)
(* the list of strings of a JSON array of strings.                         *)
(***************************************************************************)
\* The elements of a finite set of numbers, in increasing order
SortedSeq(S) ==
    [k \in 1..Cardinality(S) |->
        CHOOSE x \in S : Cardinality({y \in S : y < x}) = k - 1]

\* The number of backslashes that end right before position i
BackslashRun(cell, i) ==
    CHOOSE k \in 0..(i - 1) :
        /\ \A j \in (i - k)..(i - 1) : cell[j] = BSL
        /\ (i - k = 1 \/ cell[i - k - 1] # BSL)

\* Position i holds the second character of an escape
Escaped(cell, i) == BackslashRun(cell, i) % 2 = 1

\* The string between the quotes at positions open and close
DecodeBetween(cell, open, close) ==
    LET keep == SortedSeq({p \in (open + 1)..(close - 1) :
                              Escaped(cell, p) \/ cell[p] # BSL})
    IN  [k \in 1..Len(keep) |->
            IF Escaped(cell, keep[k]) /\ cell[keep[k]] = "n" THEN LF
            ELSE cell[keep[k]]]

JsonLoads(cell) ==
    LET quotes == SortedSeq({i \in 1..Len(cell) :
                                cell[i] = QUOTE /\ ~Escaped(cell, i)})
    IN  [k \in 1..(Len(quotes) \div 2) |->
            DecodeBetween(cell, quotes[2 * k - 1], quotes[2 * k])]

(***************************************************************************)
(* One call of the packing of lines 430-431, on a bounded comment list.    *)
(***************************************************************************)
MaxPackLen == 11
PatternLen == 3
MaxTextId == 3

PackInputs ==
    {[i \in 1..n |-> f[((i - 1) % PatternLen) + 1]] :
        n \in 0..MaxPackLen, f \in [1..PatternLen -> 0..MaxTextId]}

PackIdle ==
    /\ pin = <<>> /\ pcells = <<>> /\ ppc = "idle"

PackInit ==
    /\ pin \in PackInputs
    /\ pcells = <<>>
    /\ ppc = "call"

Pack ==
    /\ ppc = "call"
    /\ pcells' = PackComments(pin)
    /\ ppc' = "done"
    /\ UNCHANGED pin

(***************************************************************************)
(* fetch_article_pages(base_url), lines 316-351.                           *)
(*                                                                         *)
(* What a page request gives: RequestFails (requests.get or                *)
(* raise_for_status raises), ParseFails (BeautifulSoup raises, outside the *)
(* try), 0 (no <article>/<main> paragraph text) or a text number > 0.      *)
(* title and article_date are returned to a caller that drops them.        *)
(***************************************************************************)
RequestFails == -1
ParseFails == -2

MaxListedPages == 3
MaxListedText == 2

BodyTails == {"fresh", "clamp", "first", "empty", "fail"}

BodyOutcomes == {ParseFails, RequestFails} \cup 0..MaxListedText

RECURSIVE SeqsUpTo(_, _)
SeqsUpTo(S, n) ==
    IF n = 0 THEN {<<>>}
    ELSE LET shorter == SeqsUpTo(S, n - 1)
         IN  shorter \cup {Append(s, x) : s \in {t \in shorter : Len(t) = n - 1},
                                          x \in S}

\* A site lists some pages and serves the others by its tail rule.
BodySources ==
    [pages : SeqsUpTo(BodyOutcomes, MaxListedPages), tail : BodyTails]

\* The outcome of requesting page n of the site
BodyPageOf(src, n) ==
    IF n <= Len(src.pages) THEN src.pages[n]
    ELSE CASE src.tail = "fresh" -> 100 + n
           [] src.tail = "clamp" ->
                IF src.pages = <<>> THEN 0 ELSE src.pages[Len(src.pages)]
           [] src.tail = "first" ->
                IF src.pages = <<>> THEN 0 ELSE src.pages[1]
           [] src.tail = "empty" -> 0
           [] src.tail = "fail" -> RequestFails

BodyStart == [page |-> 1, bodies |-> <<>>, pc |-> "loop", fetched |-> 0]

\* One iteration of the for loop of line 320 that keeps the repeated page
BodyStepKeepRepeat(src, st) ==
    LET o == BodyPageOf(src, st.page)
        got == [st EXCEPT !.fetched = @ + 1]
    IN  IF o = RequestFails THEN [got EXCEPT !.pc = "returned"]
        ELSE IF o = ParseFails THEN [got EXCEPT !.pc = "raised"]
        ELSE IF o = 0 THEN [got EXCEPT !.pc = "returned"]
        ELSE IF st.bodies # <<>> /\ o = st.bodies[Len(st.bodies)]
             THEN [got EXCEPT !.bodies = Append(@, o), !.pc = "returned"]
        ELSE [got EXCEPT !.bodies = Append(@, o),
                         !.page = @ + 1,
                         !.pc = IF st.page = MAX_BODY_PAGES
                                THEN "returned" ELSE "loop"]

\* One iteration of a loop over the pages that has no last page
BodyStepNoLastPage(src, st) ==
    LET o == BodyPageOf(src, st.page)
        got == [st EXCEPT !.fetched = @ + 1]
    IN  IF o = RequestFails THEN [got EXCEPT !.pc = "returned"]
        ELSE IF o = ParseFails THEN [got EXCEPT !.pc = "raised"]
        ELSE IF o = 0 \/ (st.bodies # <<>> /\ o = st.bodies[Len(st.bodies)])
             THEN [got EXCEPT !.pc = "returned"]
        ELSE [got EXCEPT !.bodies = Append(@, o), !.page = @ + 1]

\* One iteration of the for loop of line 320
BodyStep(src, st) ==
    LET o == BodyPageOf(src, st.page)
        got == [st EXCEPT !.fetched = @ + 1]
    IN  IF o = RequestFails THEN [got EXCEPT !.pc = "returned"]
        ELSE IF o = ParseFails THEN [got EXCEPT !.pc = "raised"]
        ELSE IF o = 0 \/ (st.bodies # <<>> /\ o = st.bodies[Len(st.bodies)])
             THEN [got EXCEPT !.pc = "returned"]
        ELSE [got EXCEPT !.bodies = Append(@, o),
                         !.page = @ + 1,
                         !.pc = IF st.page = MAX_BODY_PAGES
                                THEN "returned" ELSE "loop"]

RECURSIVE BodyRun(_, _)
BodyRun(src, st) == IF st.pc = "loop" THEN BodyRun(src, BodyStep(src, st)) ELSE st

\* The whole call: its final state
fetch_article_pages(src) == BodyRun(src, BodyStart)

BodyIdle ==
    /\ bsrc = [pages |-> <<>>, tail |-> "empty"]
    /\ bpage = 0 /\ bodies = <<>> /\ bpc = "idle" /\ bfetched = 0

BodyInit ==
    /\ bsrc \in BodySources
    /\ bpage = BodyStart.page
    /\ bodies = BodyStart.bodies
    /\ bpc = BodyStart.pc
    /\ bfetched = BodyStart.fetched

FetchBodyPage ==
    /\ bpc = "loop"
    /\ LET st == BodyStep(bsrc, [page |-> bpage, bodies |-> bodies,
                                 pc |-> bpc, fetched |-> bfetched])
       IN  /\ bpage' = st.page
           /\ bodies' = st.bodies
           /\ bpc' = st.pc
           /\ bfetched' = st.fetched
    /\ UNCHANGED bsrc

(***************************************************************************)
(* fetch_comments_with_selenium(base_url), lines 353-410.                  *)
(*                                                                         *)
(* A site has `last` real comment pages of `size` comments each; real page *)
(* n holds the texts (n-1)*size+1 .. n*size.  `reps` of the selectors of   *)
(* lines 379-385 match the comment elements, so the candidates of a page   *)
(* list its comments `reps` times.  Past the last real page the site       *)
(* serves the last page again ("clamp"), a page without comments ("empty") *)
(* or ever new pages ("fresh").  driver.get raises on page failAt (0:      *)
(* never); driverFails: webdriver.Chrome raises.                           *)
(***************************************************************************)
None == -1

MaxCommPages == 4
MaxLast == 2
MaxSmallSize == 3
MaxReps == 2

\* Page sizes around the cap of 5000, next to the small ones
BigSizes == {2500, 4999, 5000, 5001}

CommSources ==
    [size : 1..MaxSmallSize, last : 0..MaxLast, after : {"clamp", "empty", "fresh"},
     reps : 1..MaxReps, failAt : 0..MaxCommPages, driverFails : BOOLEAN]
    \cup
    [size : BigSizes, last : 1..MaxLast, after : {"clamp", "empty", "fresh"},
     reps : {1}, failAt : 0..MaxCommPages, driverFails : {FALSE}]

RealPage(src, n) == [i \in 1..src.size |-> (n - 1) * src.size + i]

\* Whether driver.get (or the parse) of page n raises, lines 375-378
PageRaises(src, n) == n = src.failAt

\* p_candidates' texts for page n (lines 386-390)
CommPageOf(src, n) ==
    LET real == IF n <= src.last \/ src.after = "fresh" THEN RealPage(src, n)
                ELSE IF src.after = "clamp" /\ src.last > 0
                     THEN RealPage(src, src.last)
                ELSE <<>>
    IN  Flatten(Repeat(real, src.reps))

\* list(dict.fromkeys(s)), line 391: the first occurrence of each text
DictFromKeys(s) ==
    IF Cardinality(Range(s)) = Len(s) THEN s
    ELSE LET first == {i \in 1..Len(s) : \A j \in 1..(i - 1) : s[j] # s[i]}
             RECURSIVE Pick(_)
             Pick(i) == IF i > Len(s) THEN <<>>
                        ELSE (IF i \in first THEN <<s[i]>> ELSE <<>>) \o Pick(i + 1)
         IN  Pick(1)

CommStart(src) ==
    IF src.driverFails
    THEN [page |-> 1, comments |-> <<>>, last_tail |-> None,
          pc |-> "returned", stop |-> "driver"]
    ELSE [page |-> 1, comments |-> <<>>, last_tail |-> None,
          pc |-> "loop", stop |-> "none"]

\* One iteration of the while loop of line 373, without lines 401-403
CommStepNoCap(src, st) ==
    LET raw == CommPageOf(src, st.page)
        page_comments == DictFromKeys(raw)
    IN  IF PageRaises(src, st.page) THEN [st EXCEPT !.pc = "raised", !.stop = "raise"]
        ELSE IF page_comments = <<>>
             THEN [st EXCEPT !.pc = "returned", !.stop = "empty"]
        ELSE IF st.last_tail # None /\ page_comments[1] = st.last_tail
             THEN [st EXCEPT !.pc = "returned", !.stop = "repeat"]
        ELSE [st EXCEPT !.comments = @ \o page_comments,
                        !.last_tail = page_comments[Len(page_comments)],
                        !.page = @ + 1]

\* One iteration of the while loop of line 373, without the break of lines
\* 393-394
CommStepNoEmptyBreak(src, st) ==
    LET raw == CommPageOf(src, st.page)
        page_comments == DictFromKeys(raw)
        extended == st.comments \o page_comments
    IN  IF PageRaises(src, st.page)
        THEN [st EXCEPT !.pc = "raised", !.stop = "raise"]
        ELSE IF page_comments = <<>>
             THEN [st EXCEPT !.page = @ + 1]
        ELSE IF st.last_tail # None /\ page_comments[1] = st.last_tail
             THEN [st EXCEPT !.pc = "returned", !.stop = "repeat"]
        ELSE IF Len(extended) >= MAX_TOTAL_COMMENTS
             THEN [st EXCEPT !.comments = Take(extended, MAX_TOTAL_COMMENTS),
                             !.pc = "returned", !.stop = "cap"]
        ELSE [st EXCEPT !.comments = extended,
                        !.last_tail = page_comments[Len(page_comments)],
                        !.page = @ + 1]

\* One iteration of the while loop of line 373
CommStep(src, st) ==
    LET raw == CommPageOf(src, st.page)
        page_comments == DictFromKeys(raw)
        extended == st.comments \o page_comments
    IN  IF PageRaises(src, st.page)
        THEN \* the exception leaves the function through the finally of 407
             [st EXCEPT !.pc = "raised", !.stop = "raise"]
        ELSE IF page_comments = <<>>
             THEN [st EXCEPT !.pc = "returned", !.stop = "empty"]
        ELSE IF st.last_tail # None /\ page_comments[1] = st.last_tail
             THEN [st EXCEPT !.pc = "returned", !.stop = "repeat"]
        ELSE IF Len(extended) >= MAX_TOTAL_COMMENTS
             THEN [st EXCEPT !.comments = Take(extended, MAX_TOTAL_COMMENTS),
                             !.pc = "returned", !.stop = "cap"]
        ELSE [st EXCEPT !.comments = extended,
                        !.last_tail = page_comments[Len(page_comments)],
                        !.page = @ + 1]

RECURSIVE CommRun(_, _)
CommRun(src, st) == IF st.pc = "loop" THEN CommRun(src, CommStep(src, st)) ELSE st

\* The whole call: its final state
fetch_comments_with_selenium(src) == CommRun(src, CommStart(src))

CommIdle ==
    /\ csrc = [size |-> 1, last |-> 0, after |-> "empty", reps |-> 1,
               failAt |-> 0, driverFails |-> FALSE]
    /\ cpage = 0 /\ comments = <<>> /\ last_tail = None
    /\ cpc = "idle" /\ cstop = "none"

CommInit ==
    /\ csrc \in CommSources
    /\ cpage = 1 /\ comments = <<>> /\ last_tail = None
    /\ cpc = "start" /\ cstop = "none"

\* Lines 354-371: the driver is built, or the call returns []
StartDriver ==
    /\ cpc = "start"
    /\ LET st == CommStart(csrc)
       IN  /\ cpc' = st.pc
           /\ cstop' = st.stop
    /\ UNCHANGED <<csrc, cpage, comments, last_tail>>

\* One pass of the while loop of line 373
FetchCommentPageAny ==
    /\ cpc = "loop"
    /\ LET st == CommStep(csrc, [page |-> cpage, comments |-> comments,
                                 last_tail |-> last_tail, pc |-> cpc,
                                 stop |-> cstop])
       IN  /\ cpage' = st.page
           /\ comments' = st.comments
           /\ last_tail' = st.last_tail
           /\ cpc' = st.pc
           /\ cstop' = st.stop
    /\ UNCHANGED csrc

\* One pass of the while loop, for the pages up to MaxCommPages
FetchCommentPage == cpage <= MaxCommPages /\ FetchCommentPageAny

(***************************************************************************)
(* Time.  A datetime is a number of seconds since the first day of year 0  *)
(* of the model, in JST.                                                   *)
(***************************************************************************)
DaySec == 86400
DaysPerYear == 365
NoDate == -1

At(day, h, m, sec) == day * DaySec + h * 3600 + m * 60 + sec

DayOf(t) == t \div DaySec

YearOf(t) == DayOf(t) \div DaysPerYear

(***************************************************************************)
(* The text of a posted-at cell (column C of the SOURCE sheet), by the     *)
(* format it has:                                                          *)
(*   "md"    MM/DD HH:MM            day = day of the year, sec = HH:MM     *)
(*   "ymd"   YYYY/MM/DD HH:MM       day = the day, sec = HH:MM             *)
(*   "ymds"  YYYY/MM/DD HH:MM:SS    day = the day, sec = HH:MM:SS          *)
(*   "yymd"  YY/M/D HH:MM           what format_yy_m_d_hm writes           *)
(*   "other" any other text, such as the search's "not available"          *)
(***************************************************************************)
PostedMD(doy, h, m) == [fmt |-> "md", day |-> doy, sec |-> h * 3600 + m * 60]
PostedYMD(day, h, m) == [fmt |-> "ymd", day |-> day, sec |-> h * 3600 + m * 60]
PostedYMDS(day, h, m, sec) ==
    [fmt |-> "ymds", day |-> day, sec |-> h * 3600 + m * 60 + sec]
PostedOther == [fmt |-> "other", day |-> 0, sec |-> 0]

\* parse_post_date(raw, today_jst), lines 83-106, for the strings that
\* ws.get returns: the three strptime formats, the year of today for the
\* first, None for a string that matches none.
parse_post_date(raw, today_jst) ==
    CASE raw.fmt = "md" ->
            (YearOf(today_jst) * DaysPerYear + raw.day) * DaySec + raw.sec
      [] raw.fmt = "ymd" -> raw.day * DaySec + raw.sec
      [] raw.fmt = "ymds" -> raw.day * DaySec + raw.sec
      [] OTHER -> NoDate

\* format_yy_m_d_hm(dt), lines 76-81: the seconds are dropped
format_yy_m_d_hm(dt) ==
    [fmt |-> "yymd", day |-> DayOf(dt), sec |-> (dt % DaySec) - (dt % 60)]

\* Lines 287-288
WindowStart(tnow) == At(DayOf(tnow) - 1, 15, 0, 0)
WindowEnd(tnow) == At(DayOf(tnow), 14, 59, 59)

\* The window test of line 305 with the end of the window left out
InWindowEndExclusive(dt, tnow) == WindowStart(tnow) <= dt /\ dt < WindowEnd(tnow)

\* The window test of line 305
InWindow(dt, tnow) == WindowStart(tnow) <= dt /\ dt <= WindowEnd(tnow)

\* jst_now().strftime("%y%m%d"), line 473: the tab is named by the day
TabName(tnow) == DayOf(tnow)

(***************************************************************************)
(* The sheets.  A row of the SOURCE sheet is [title, url, posted, site].   *)
(* A day tab is [hdr, rows]: hdr is the number of header cells of row 1    *)
(* (the header texts are fixed by their column, so the width is the        *)
(* header), rows are the rows from row 2 on, each                          *)
(* [title, url, posted, site, cells] with cells the cells from column F    *)
(* on.  A cell is <<>> (empty), <<"body", text>>, <<"count", n>> or the    *)
(* characters of a JSON string.                                            *)
(***************************************************************************)
HeaderRow ==
    [title |-> "title", url |-> "URL", posted |-> PostedOther, site |-> "source"]

EmptyCell == <<>>
BodyCell(text) == <<"body", text>>
CountCell(n) == <<"count", n>>

EmptyTab == [hdr |-> 0, rows |-> <<>>]

BaseWidth == 5

\* A sheet drops the empty cells that end a row
RECURSIVE TrimCells(_)
TrimCells(cells) ==
    IF cells # <<>> /\ cells[Len(cells)] = EmptyCell
    THEN TrimCells(SubSeq(cells, 1, Len(cells) - 1))
    ELSE cells

(***************************************************************************)
(* write_news_list_to_source, lines 220-248.                               *)
(***************************************************************************)
\* Lines 234-238 with new_data in the reverse of the input order
NewDataNewestFirst(sheet, articles) ==
    LET existing_urls == {sheet[i].url : i \in 2..Len(sheet)}
        kept == SelectSeq(articles, LAMBDA a : a.url \notin existing_urls)
    IN  [k \in 1..Len(kept) |-> kept[Len(kept) + 1 - k]]

\* Lines 234-238: existing_urls skips row 1; new_data keeps input order
NewData(sheet, articles) ==
    LET existing_urls == {sheet[i].url : i \in 2..Len(sheet)}
    IN  SelectSeq(articles, LAMBDA a : a.url \notin existing_urls)

\* The for loop of line 225 is over after this many failed attempts
ExhaustedOneLate(n) == n > MAX_ATTEMPTS

Exhausted(n) == n >= MAX_ATTEMPTS

MaxLog == 3

\* One attempt that succeeds, lines 227-244
AttemptSucceeds ==
    /\ pc = "append"
    /\ LET sheet == IF yahooExists THEN yahoo ELSE <<HeaderRow>>
           new_data == NewData(sheet, all_articles)
       IN  /\ Len(sheet) + Len(new_data) <= MaxLog + 1
           /\ yahoo' = sheet \o new_data
           /\ lastAppend' = [articles |-> all_articles, rows |-> Len(new_data)]
    /\ yahooExists' = TRUE
    /\ pc' = "tab"
    \* main does not read articles again, and attempt is gone with the call
    /\ all_articles' = <<>> /\ attempt' = 0
    /\ UNCHANGED <<now, tabs, kwi, ws, added, promo, enr, web>>

\* One attempt that ends in gspread's APIError, lines 245-248: the call that
\* fails changed nothing, or it is the append_row of line 232 after
\* add_worksheet made the sheet
AttemptFails ==
    /\ pc = "append"
    /\ \/ UNCHANGED <<yahooExists, yahoo>>
       \/ /\ ~yahooExists
          /\ yahooExists' = TRUE
          /\ yahoo' = <<>>
    /\ attempt' = attempt + 1
    /\ pc' = IF Exhausted(attempt + 1) THEN "crashed" ELSE "append"
    /\ UNCHANGED <<now, tabs, kwi, all_articles, ws, added, promo,
                   enr, web, lastAppend>>

(***************************************************************************)
(* transfer_a_to_e, lines 278-314.                                         *)
(***************************************************************************)
\* get_existing_urls(ws), lines 257-259: column C from row 2 on
get_existing_urls(tab) == {tab.rows[i].url : i \in 1..Len(tab.rows)}

\* ensure_ae_header(ws), lines 261-265
ensure_ae_header(tab) == [tab EXCEPT !.hdr = Max(@, BaseWidth)]

\* The rows of the SOURCE sheet that the loop of lines 294-310 takes, by
\* their index: row 1 is skipped
TakenRows(rows, existing, tnow) ==
    SortedSeq({i \in 2..Len(rows) :
        /\ rows[i].title # "" /\ rows[i].url # ""
        /\ parse_post_date(rows[i].posted, tnow) # NoDate
        /\ InWindow(parse_post_date(rows[i].posted, tnow), tnow)
        /\ rows[i].url \notin existing})

transfer_a_to_e ==
    /\ pc = "transfer"
    /\ LET rows == yahoo
           dest == ensure_ae_header(tabs[ws])
           existing == get_existing_urls(dest)
           taken == TakenRows(rows, existing, now)
           dt(i) == parse_post_date(rows[i].posted, now)
           to_append == [k \in 1..Len(taken) |->
                           [title |-> rows[taken[k]].title,
                            url |-> rows[taken[k]].url,
                            posted |-> format_yy_m_d_hm(dt(taken[k])),
                            site |-> rows[taken[k]].site,
                            cells |-> <<>>]]
       IN  /\ tabs' = [tabs EXCEPT ![ws] = [dest EXCEPT !.rows = @ \o to_append]]
           /\ added' = Len(to_append)
           /\ promo' = [now |-> now, tab |-> ws, idx |-> taken,
                        dts |-> [k \in 1..Len(taken) |-> dt(taken[k])]]
    /\ pc' = "enrich"
    /\ UNCHANGED <<now, yahooExists, yahoo, kwi, all_articles, attempt, ws,
                   enr, web, lastAppend>>

(***************************************************************************)
(* write_bodies_and_comments, lines 412-452.  A site is [b, c]: what       *)
(* fetch_article_pages and fetch_comments_with_selenium meet for one url.  *)
(***************************************************************************)
SiteOk ==
    [b |-> [pages |-> <<1>>, tail |-> "empty"],
     c |-> [size |-> 1, last |-> 1, after |-> "empty", reps |-> 1,
            failAt |-> 0, driverFails |-> FALSE]]

SiteRaises == [SiteOk EXCEPT !.c.failAt = 1]

SiteOfBodies(pages, tail) == [SiteOk EXCEPT !.b = [pages |-> pages, tail |-> tail]]

SiteOfComments(size, last, failAt) ==
    [SiteOk EXCEPT !.c.size = size, !.c.last = last, !.c.failAt = failAt]

EnrichWeb ==
    { SiteOk,
      SiteOfBodies(<<1, 2>>, "clamp"),
      SiteOfBodies(<<ParseFails>>, "empty"),
      SiteOfBodies(<<0>>, "empty"),
      SiteOfComments(3, 4, 0),
      SiteOfComments(25, 1, 0),
      SiteOfComments(45, 1, 0),
      SiteOfComments(1, 0, 0),
      SiteOfComments(2, 1, 2) }

\* Line 441
FailedRow == Repeat(EmptyCell, MAX_BODY_PAGES) \o <<CountCell(0)>>

\* Lines 424-441 for one url: its row of rows_data, its number of comment
\* pages, and whether the except of line 439 was taken
EnrichRow(site) ==
    LET b == fetch_article_pages(site.b)
        c == fetch_comments_with_selenium(site.c)
        shown == Take(b.bodies, MAX_BODY_PAGES)
        body_cells == [i \in 1..Len(shown) |-> BodyCell(shown[i])]
                      \o Repeat(EmptyCell, MAX_BODY_PAGES - Len(b.bodies))
        json_per_page == PackComments(c.comments)
    IN  IF b.pc = "raised" \/ c.pc = "raised"
        THEN [row |-> FailedRow, pages |-> 0, failed |-> TRUE]
        ELSE [row |-> body_cells \o <<CountCell(Len(c.comments))>> \o json_per_page,
              pages |-> Len(json_per_page), failed |-> FALSE]

\* EnrichRow of each site there is, computed once
EnrichedSite == [site \in EnrichWeb |-> EnrichRow(site)]

\* Lines 424-441 with an except that gives up the rows of the later urls
EnrichAllStopAtFailure(sites) ==
    LET all == [i \in 1..Len(sites) |-> EnrichedSite[sites[i]]]
        bad == {i \in 1..Len(sites) : all[i].failed}
    IN  IF bad = {} THEN all
        ELSE SubSeq(all, 1, (CHOOSE i \in bad : \A j \in bad : i <= j) - 1)

\* Lines 424-441 with an except that appends no row
EnrichAllSkipFailed(sites) ==
    SelectSeq([i \in 1..Len(sites) |-> EnrichedSite[sites[i]]],
              LAMBDA e : ~e.failed)

\* The for loop of lines 422-441
EnrichAll(sites) == [i \in 1..Len(sites) |-> EnrichedSite[sites[i]]]

\* max_comment_pages, lines 420 and 437-438
MaxPages(done) ==
    IF done = <<>> THEN 0
    ELSE CHOOSE m \in {done[i].pages : i \in 1..Len(done)} :
            \A i \in 1..Len(done) : done[i].pages <= m

\* Lines 267-276 with a header that is written to a tab without body and
\* comment headers only
HeaderWrittenOnce(tab, max_comment_pages) ==
    LET target == BaseWidth + MAX_BODY_PAGES + 1 + Max(1, max_comment_pages)
    IN  [tab EXCEPT !.hdr = IF @ <= BaseWidth THEN target ELSE @]

\* ensure_body_comment_headers, lines 267-276: a header of another width is
\* overwritten from A1 on, which leaves the cells right of the new header
ensure_body_comment_headers(tab, max_comment_pages) ==
    LET target == BaseWidth + MAX_BODY_PAGES + 1 + Max(1, max_comment_pages)
    IN  [tab EXCEPT !.hdr = IF @ # target THEN Max(@, target) ELSE @]

\* Lines 445-448
PadRow(row, need_cols) == row \o Repeat(EmptyCell, need_cols - Len(row))

\* ws.update(range_name="F2", values=rows_data), line 451: the cells of the
\* rectangle are overwritten, the cells right of it stay
UpdateFromF2(rows, rows_data) ==
    [i \in 1..Len(rows) |->
        IF i <= Len(rows_data)
        THEN [rows[i] EXCEPT !.cells =
                 TrimCells(rows_data[i] \o Drop(@, Len(rows_data[i])))]
        ELSE rows[i]]

write_bodies_and_comments ==
    /\ pc = "enrich"
    /\ LET tab == tabs[ws]
           urls == [i \in 1..Len(tab.rows) |-> tab.rows[i].url]
       IN  IF Len(urls) = 0
           THEN /\ enr' = [urls |-> urls, sites |-> <<>>, rows_data |-> <<>>,
                           wrote |-> FALSE, head |-> tab.hdr]
                /\ UNCHANGED tabs
           ELSE \E sites \in [1..Len(urls) -> web] :
                  LET done == EnrichAll(sites)
                      max_comment_pages == MaxPages(done)
                      need_cols == MAX_BODY_PAGES + 1 + max_comment_pages
                      rows_data == [i \in 1..Len(done) |->
                                      PadRow(done[i].row, need_cols)]
                      headed == ensure_body_comment_headers(tab, max_comment_pages)
                  IN  /\ tabs' = [tabs EXCEPT ![ws] =
                             [headed EXCEPT !.rows = UpdateFromF2(@, rows_data)]]
                      /\ enr' = [urls |-> urls, sites |-> sites,
                                 rows_data |-> rows_data, wrote |-> rows_data # <<>>,
                                 head |-> tab.hdr]
    /\ pc' = "done"
    /\ UNCHANGED <<now, yahooExists, yahoo, kwi, all_articles, attempt, ws,
                   added, promo, web, lastAppend>>

(***************************************************************************)
(* main, lines 455-485, and the runs one after the other.                  *)
(***************************************************************************)
Today == DaysPerYear - 1     \* the first day of the model: 31 December
MaxDays == 2

ModelDays == Today..(Today + MaxDays - 1)

\* The times the clock is read at
Instants == {At(d, 21, 0, 0) : d \in ModelDays}

Article(url, posted) ==
    [title |-> "t", url |-> url, posted |-> posted, site |-> "s"]

\* What a search can return, lines 207-213
Articles ==
    { Article("u1", PostedYMDS(Today, 15, 0, 1)),
      Article("u2", PostedYMDS(Today, 14, 59, 59)) }

\* get_yahoo_news_with_selenium(keyword): no article (also when the driver
\* cannot be built, line 156) or one
SearchResults == {<<>>} \cup {<<a>> : a \in Articles}

NoTab == 0
NoPromo == [now |-> 0, tab |-> NoTab, idx |-> <<>>, dts |-> <<>>]
NoAppend == [articles |-> <<>>, rows |-> 0]
NoEnr == [urls |-> <<>>, sites |-> <<>>, rows_data |-> <<>>, wrote |-> FALSE,
          head |-> 0]

PipeInit ==
    /\ now \in Instants
    /\ yahooExists \in BOOLEAN
    /\ yahoo = IF yahooExists THEN <<HeaderRow>> ELSE <<>>
    /\ tabs = [d \in ModelDays |-> EmptyTab]
    /\ pc = "search" /\ kwi = 1 /\ all_articles = <<>> /\ attempt = 0
    /\ ws = NoTab /\ added = 0
    /\ promo = NoPromo
    /\ enr = NoEnr
    /\ web = {SiteOk}
    /\ lastAppend = NoAppend

\* Lines 460-469 with the return of line 465 left out
AfterSearchNoReturn(k, articles) ==
    IF k < NUM_KEYWORDS THEN "search" ELSE "append"

\* Where main goes after the search of keyword k: the for loop of line 460,
\* the return of line 465, the call of line 469
AfterSearch(k, articles) ==
    IF k < NUM_KEYWORDS THEN "search"
    ELSE IF articles = <<>> THEN "done"
    ELSE "append"

\* Lines 460-466: the search of one keyword
Search ==
    /\ pc = "search"
    /\ \E arts \in SearchResults :
          /\ all_articles' = all_articles \o arts
          /\ pc' = AfterSearch(kwi, all_articles')
    /\ kwi' = kwi + 1
    /\ UNCHANGED <<now, yahooExists, yahoo, tabs, attempt, ws, added, promo,
                   enr, web, lastAppend>>

\* Lines 472-474: the tab of today
SelectTab ==
    /\ pc = "tab"
    /\ ws' = TabName(now)
    /\ pc' = "transfer"
    /\ UNCHANGED <<now, yahooExists, yahoo, tabs, kwi, all_articles, attempt,
                   added, promo, enr, web, lastAppend>>

\* The scheduler starts the next run: main's variables are new, and so is
\* the record of the last calls
NewRun ==
    /\ pc \in {"done", "crashed"}
    /\ pc' = "search" /\ kwi' = 1 /\ all_articles' = <<>> /\ attempt' = 0
    /\ ws' = NoTab /\ added' = 0 /\ promo' = NoPromo /\ enr' = NoEnr
    /\ lastAppend' = NoAppend
    /\ UNCHANGED <<now, yahooExists, yahoo, tabs, web>>

\* Time passes.  The program reads the clock at lines 473 and 286 only.
Tick ==
    /\ pc \in {"tab", "transfer"}
    /\ \E t \in Instants : t > now /\ now' = t
    /\ UNCHANGED <<yahooExists, yahoo, tabs, pc, kwi, all_articles, attempt,
                   ws, added, promo, enr, web, lastAppend>>

PipeNext ==
    \/ Search /\ UNCHANGED <<bodyVars, commVars, packVars>>
    \/ AttemptSucceeds /\ UNCHANGED <<bodyVars, commVars, packVars>>
    \/ AttemptFails /\ UNCHANGED <<bodyVars, commVars, packVars>>
    \/ SelectTab /\ UNCHANGED <<bodyVars, commVars, packVars>>
    \/ transfer_a_to_e /\ UNCHANGED <<bodyVars, commVars, packVars>>
    \/ write_bodies_and_comments /\ UNCHANGED <<bodyVars, commVars, packVars>>
    \/ NewRun /\ UNCHANGED <<bodyVars, commVars, packVars>>
    \/ Tick /\ UNCHANGED <<bodyVars, commVars, packVars>>

Init == PipeInit /\ BodyIdle /\ CommIdle /\ PackIdle

Spec == Init /\ [][PipeNext]_vars

(***************************************************************************)
(* transfer_a_to_e over the contents a SOURCE sheet can have: the runs of  *)
(* a SOURCE sheet that the searches add nothing to.                        *)
(***************************************************************************)
MaxMaster == 2

PromoteInstants == {At(d, h, 0, 0) : d \in ModelDays, h \in {9, 21}}

PromotePosted ==
    { PostedYMDS(Today, 15, 0, 1), PostedYMDS(Today, 14, 59, 59),
      PostedYMD(Today, 15, 0), PostedYMDS(Today - 1, 14, 59, 59),
      PostedMD(Today % DaysPerYear, 15, 0), PostedOther }

PromoteArticles == {Article("u1", p) : p \in PromotePosted}
                   \cup {Article("u2", PostedYMDS(Today, 15, 0, 1))}

PromoteInit ==
    /\ now \in PromoteInstants
    /\ yahooExists = TRUE
    /\ \E data \in SeqsUpTo(PromoteArticles, MaxMaster) :
          yahoo = <<HeaderRow>> \o data
    /\ tabs = [d \in ModelDays |-> EmptyTab]
    /\ pc = "tab" /\ kwi = NUM_KEYWORDS + 1 /\ all_articles = <<>> /\ attempt = 0
    /\ ws = NoTab /\ added = 0
    /\ promo = NoPromo
    /\ enr = NoEnr
    /\ web = {SiteOk}
    /\ lastAppend = NoAppend

\* The next run, when its searches return known urls only: it gets to line
\* 472 with the SOURCE sheet as it was
RunWithKnownUrls ==
    /\ pc = "done"
    /\ pc' = "tab"
    /\ ws' = NoTab /\ added' = 0 /\ promo' = NoPromo /\ enr' = NoEnr
    /\ UNCHANGED <<now, yahooExists, yahoo, tabs, kwi, all_articles,
                   attempt, web, lastAppend>>

\* Time passes, also between two runs
PromoteTick ==
    /\ pc \in {"tab", "transfer"}
    /\ \E t \in PromoteInstants : t > now /\ now' = t
    /\ UNCHANGED <<yahooExists, yahoo, tabs, pc, kwi, all_articles, attempt,
                   ws, added, promo, enr, web, lastAppend>>

PromoteNext ==
    \/ SelectTab /\ UNCHANGED <<bodyVars, commVars, packVars>>
    \/ transfer_a_to_e /\ UNCHANGED <<bodyVars, commVars, packVars>>
    \/ write_bodies_and_comments /\ UNCHANGED <<bodyVars, commVars, packVars>>
    \/ RunWithKnownUrls /\ UNCHANGED <<bodyVars, commVars, packVars>>
    \/ PromoteTick /\ UNCHANGED <<bodyVars, commVars, packVars>>

InitPromote == PromoteInit /\ BodyIdle /\ CommIdle /\ PackIdle

SpecPromote == InitPromote /\ [][PromoteNext]_vars

(***************************************************************************)
(* write_bodies_and_comments over the sites an article can have: the runs  *)
(* of one day on the day's tab.                                            *)
(***************************************************************************)
MaxRows == 2

FreshRow(i) ==
    [title |-> "t", url |-> <<"u", i>>, posted |-> format_yy_m_d_hm(At(Today, 9, 0, 0)),
     site |-> "s", cells |-> <<>>]

EnrichInit ==
    /\ now = At(Today, 21, 0, 0)
    /\ yahooExists = TRUE
    /\ yahoo = <<HeaderRow>>
    /\ \E n \in 0..MaxRows :
          tabs = [d \in ModelDays |->
                    IF d = Today
                    THEN [hdr |-> BaseWidth, rows |-> [i \in 1..n |-> FreshRow(i)]]
                    ELSE EmptyTab]
    /\ pc = "enrich" /\ kwi = NUM_KEYWORDS + 1 /\ all_articles = <<>> /\ attempt = 0
    /\ ws = Today /\ added = 0
    /\ promo = NoPromo
    /\ enr = NoEnr
    /\ web = EnrichWeb
    /\ lastAppend = NoAppend

\* The next run of the day gets to line 483 with the tab of the last run,
\* after a transfer that appended no row or one
RunToEnrichAgain ==
    /\ pc = "done"
    /\ pc' = "enrich"
    /\ enr' = NoEnr
    /\ \/ UNCHANGED tabs
       \/ /\ Len(tabs[ws].rows) < MaxRows
          /\ tabs' = [tabs EXCEPT ![ws].rows = Append(@, FreshRow(Len(@) + 1))]
    /\ UNCHANGED <<now, yahooExists, yahoo, kwi, all_articles, attempt, ws,
                   added, promo, web, lastAppend>>

EnrichNext ==
    \/ write_bodies_and_comments /\ UNCHANGED <<bodyVars, commVars, packVars>>
    \/ RunToEnrichAgain /\ UNCHANGED <<bodyVars, commVars, packVars>>

InitEnrich == EnrichInit /\ BodyIdle /\ CommIdle /\ PackIdle

SpecEnrich == InitEnrich /\ [][EnrichNext]_vars

(***************************************************************************)
(* write_news_list_to_source over the articles the searches can return:    *)
(* the runs of a SOURCE spreadsheet, seen up to line 469.                  *)
(***************************************************************************)
MaxBatch == 2

\* The concatenated search results of a run that gets to line 469
Batches == SeqsUpTo(Articles, MaxBatch) \ {<<>>}

AppendInit ==
    /\ now = At(Today, 21, 0, 0)
    /\ yahooExists \in BOOLEAN
    /\ IF yahooExists
       THEN \E data \in SeqsUpTo(Articles, 1) : yahoo = <<HeaderRow>> \o data
       ELSE yahoo = <<>>
    /\ tabs = [d \in ModelDays |-> EmptyTab]
    /\ pc = "append" /\ kwi = NUM_KEYWORDS + 1 /\ attempt = 0
    /\ all_articles \in Batches
    /\ ws = NoTab /\ added = 0
    /\ promo = NoPromo
    /\ enr = NoEnr
    /\ web = {SiteOk}
    /\ lastAppend = NoAppend

\* The next run gets to line 469 with its search results, after a run that
\* ended, by the RuntimeError of line 248 or later
NextRunAppends ==
    /\ pc \in {"tab", "crashed"}
    /\ pc' = "append" /\ attempt' = 0
    /\ all_articles' \in Batches
    /\ UNCHANGED <<now, yahooExists, yahoo, tabs, kwi, ws, added, promo, enr,
                   web, lastAppend>>

AppendNext ==
    \/ AttemptSucceeds /\ UNCHANGED <<bodyVars, commVars, packVars>>
    \/ AttemptFails /\ UNCHANGED <<bodyVars, commVars, packVars>>
    \/ NextRunAppends /\ UNCHANGED <<bodyVars, commVars, packVars>>

InitAppend == AppendInit /\ BodyIdle /\ CommIdle /\ PackIdle

SpecAppend == InitAppend /\ [][AppendNext]_vars

(***************************************************************************)
(* The specifications of the three functions taken alone.                  *)
(***************************************************************************)
PipeIdle ==
    /\ now = 0 /\ yahooExists = FALSE /\ yahoo = <<>> /\ tabs = <<>>
    /\ pc = "idle" /\ kwi = 0 /\ all_articles = <<>> /\ attempt = 0
    /\ ws = 0 /\ added = 0 /\ promo = <<>> /\ enr = <<>> /\ web = {}
    /\ lastAppend = <<>>

PackNext == Pack /\ UNCHANGED <<pipeVars, bodyVars, commVars>>

InitPack == PipeIdle /\ BodyIdle /\ CommIdle /\ PackInit

SpecPack == InitPack /\ [][PackNext]_vars

BodyNext == FetchBodyPage /\ UNCHANGED <<pipeVars, commVars, packVars>>

InitBody == PipeIdle /\ BodyInit /\ CommIdle /\ PackIdle

SpecBody == InitBody /\ [][BodyNext]_vars

CommNext ==
    \/ StartDriver /\ UNCHANGED <<pipeVars, bodyVars, packVars>>
    \/ FetchCommentPage /\ UNCHANGED <<pipeVars, bodyVars, packVars>>

InitComments == PipeIdle /\ BodyIdle /\ CommInit /\ PackIdle

SpecComments == InitComments /\ [][CommNext]_vars

(***************************************************************************)
(* fetch_comments_with_selenium run to its end, on sites whose pages all   *)
(* render, with pages of one, two or three comments.  The loop is the     *)
(* only thing the process does, so it takes its next pass: weak fairness.  *)
(***************************************************************************)
LongSizes == {1, 2, 3}

LongSources ==
    [size : LongSizes, last : {1}, after : {"clamp", "empty", "fresh"},
     reps : {1}, failAt : {0}, driverFails : BOOLEAN]

CommLongInit ==
    /\ csrc \in LongSources
    /\ cpage = 1 /\ comments = <<>> /\ last_tail = None
    /\ cpc = "start" /\ cstop = "none"

CommLongNext ==
    \/ StartDriver /\ UNCHANGED <<pipeVars, bodyVars, packVars>>
    \/ FetchCommentPageAny /\ UNCHANGED <<pipeVars, bodyVars, packVars>>

InitCommentsLong == PipeIdle /\ BodyIdle /\ CommLongInit /\ PackIdle

SpecCommentsLive ==
    InitCommentsLong /\ [][CommLongNext]_vars /\ WF_vars(CommLongNext)

(***************************************************************************)
(* Claims about the three functions.                                       *)
(***************************************************************************)
CeilDiv(a, b) == (a + b - 1) \div b

DecodedCells == [k \in 1..Len(pcells) |-> JsonLoads(pcells[k])]

\* C4: packing n comments gives ceil(n / page_capacity) cells, each the JSON
\* array of at most page_capacity comments: none for 0 comments, one for
\* page_capacity, two for page_capacity + 1 with 1 element in the second;
\* decoding the cells and concatenating them gives the comments back.
C4_PackRoundTrip ==
    ppc = "done" =>
        /\ Len(pcells) = CeilDiv(Len(pin), PAGE_CAPACITY)
        /\ \A k \in 1..Len(pcells) :
              /\ Len(DecodedCells[k]) \in 1..PAGE_CAPACITY
              /\ JsonDumpsTexts(DecodedCells[k]) = pcells[k]
        /\ (Len(pin) = 0 => pcells = <<>>)
        /\ (Len(pin) = PAGE_CAPACITY => Len(pcells) = 1)
        /\ (Len(pin) = PAGE_CAPACITY + 1 =>
              Len(pcells) = 2 /\ Len(DecodedCells[2]) = 1)
        /\ Flatten(DecodedCells) = [i \in 1..Len(pin) |-> CommentText(pin[i])]

\* page_capacity + 1 comments, one of them with a quote and a backslash in it
C4_Witness ==
    /\ ppc = "done"
    /\ Len(pin) = PAGE_CAPACITY + 1
    /\ \E i, j \in 1..Len(pin) : pin[i] % 4 = 1 /\ pin[j] % 4 = 3
    /\ Len(pcells) = 2

\* Page k is the first page whose text equals that of page k-1, every page
\* up to it having given a text.
IsFirstRepeat(k) ==
    /\ k \in 2..MAX_BODY_PAGES
    /\ \A j \in 1..k : BodyPageOf(bsrc, j) > 0
    /\ BodyPageOf(bsrc, k) = BodyPageOf(bsrc, k - 1)
    /\ \A j \in 2..(k - 1) : BodyPageOf(bsrc, j) # BodyPageOf(bsrc, j - 1)

\* C5: fetch_article_pages stops at the first page k whose text equals the
\* text of page k-1: it requests no page after k and returns the k-1 pages
\* before it, in page order.
C5_StopsAtRepeat ==
    \A k \in 2..MAX_BODY_PAGES :
        IsFirstRepeat(k) =>
            /\ bfetched <= k
            /\ bpc # "raised"
            /\ bpc = "returned" =>
                  /\ bfetched = k
                  /\ bodies = [i \in 1..(k - 1) |-> BodyPageOf(bsrc, i)]

C5_Witness ==
    /\ bpc = "returned"
    /\ \E k \in 3..MAX_BODY_PAGES : IsFirstRepeat(k) /\ Len(bodies) = k - 1

\* The deduplicated comments of pages 1..n, concatenated
RECURSIVE Accumulated(_, _)
Accumulated(src, n) ==
    IF n = 0 THEN <<>>
    ELSE Accumulated(src, n - 1) \o DictFromKeys(CommPageOf(src, n))

\* C6: fetch_comments_with_selenium returns at most 5000 comments, and
\* exactly the first 5000 accumulated ones when the count reaches or passes
\* 5000; the loop never goes on with 5000 or more.
C6_AtMostCap ==
    /\ Len(comments) <= MAX_TOTAL_COMMENTS
    /\ cpc = "loop" => Len(comments) < MAX_TOTAL_COMMENTS
    /\ (cpc = "returned" /\ Len(Accumulated(csrc, cpage)) >= MAX_TOTAL_COMMENTS
        /\ cstop \notin {"driver", "empty", "repeat"}) =>
            comments = Take(Accumulated(csrc, cpage), MAX_TOTAL_COMMENTS)

\* a page takes the count past 5000 and the result is cut to 5000
C6_Witness ==
    /\ cpc = "returned"
    /\ Len(Accumulated(csrc, cpage)) > MAX_TOTAL_COMMENTS
    /\ Len(comments) = MAX_TOTAL_COMMENTS

\* A site that serves its last real page again for every later page number
\* and has fewer than 5000 comments
ClampingSource ==
    /\ csrc.after = "clamp" /\ csrc.last >= 1
    /\ csrc.failAt = 0 /\ ~csrc.driverFails
    /\ csrc.size * csrc.last < MAX_TOTAL_COMMENTS

\* C7: on a site that serves its last real page again for every page number
\* past the last, fetch_comments_with_selenium ends by the repeat test of
\* line 396: it does not go past the first page served again, and it
\* returns through that test.
C7_EndsByRepeatTest ==
    ClampingSource =>
        /\ cpage <= csrc.last + 1
        /\ cpc = "returned" => cstop = "repeat"

\* C8: when driver.get raises on page n (here n >= 2, so that there are
\* comments to return), fetch_comments_with_selenium ends and returns the
\* comments of pages 1..n-1 to its caller.
C8_ReturnsAccumulated ==
    (cstop = "raise" /\ cpage >= 2) =>
        /\ cpc = "returned"
        /\ comments = Accumulated(csrc, cpage - 1)

(***************************************************************************)
(* Claims about the sheets and the runs.                                   *)
(***************************************************************************)
\* The articles of the SOURCE sheet: its rows but the header
MasterLog == SelectSeq(yahoo, LAMBDA r : r # HeaderRow)

\* C1: after any sequence of runs, no url is in more than one row of the
\* SOURCE sheet, also when the search results of a run hold a url twice.
C1_MasterUrlsUnique ==
    \A i, j \in 1..Len(MasterLog) :
        i # j => MasterLog[i].url # MasterLog[j].url

UrlsOfTab(tab) == {tab.rows[i].url : i \in 1..Len(tab.rows)}

\* C2: a transfer_a_to_e call at time now appends a row only if its parsed
\* posted-at t has (yesterday 15:00:00) <= t <= (today 14:59:59); the rows
\* at both ends are taken; a row of today 15:00:01 is not appended, and a
\* row of yesterday 15:00:01 is in the tab after the call.  (Rows are the
\* rows of the SOURCE sheet below row 1.)
C2_PromotionWindow ==
    pc = "enrich" =>
        LET today == DayOf(promo.now)
            t(i) == parse_post_date(yahoo[i].posted, promo.now)
            appended == Range(promo.idx)
            inTab(i) == yahoo[i].url \in UrlsOfTab(tabs[promo.tab])
        IN  /\ \A k \in 1..Len(promo.dts) :
                  /\ At(today - 1, 15, 0, 0) <= promo.dts[k]
                  /\ promo.dts[k] <= At(today, 14, 59, 59)
                  /\ promo.dts[k] = t(promo.idx[k])
            /\ \A i \in 2..Len(yahoo) :
                  /\ t(i) = At(today, 15, 0, 1) => i \notin appended
                  /\ t(i) = At(today, 15, 0, 0) => i \notin appended
                  /\ t(i) = At(today - 1, 14, 59, 59) => i \notin appended
                  /\ t(i) = At(today - 1, 15, 0, 1) => inTab(i)
                  /\ t(i) = At(today - 1, 15, 0, 0) => inTab(i)
                  /\ t(i) = At(today, 14, 59, 59) => inTab(i)

\* A transfer on the day after Today appended a row of Today 15:00:01 that
\* the transfer into Today's tab had left out
C2_Witness ==
    /\ pc = "enrich"
    /\ DayOf(promo.now) = Today + 1
    /\ tabs[Today].hdr >= BaseWidth
    /\ \E k \in 1..Len(promo.idx) :
          /\ promo.dts[k] = At(Today, 15, 0, 1)
          /\ promo.tab = Today + 1
          /\ yahoo[promo.idx[k]].url \notin UrlsOfTab(tabs[Today])

\* C3: in every day tab each url is in at most one row.
C3_TabUrlsUnique ==
    \A d \in DOMAIN tabs :
        \A i, j \in 1..Len(tabs[d].rows) :
            i # j => tabs[d].rows[i].url # tabs[d].rows[j].url

\* The fetches of the site raise (line 439 is reached)
SiteRaisesException(site) ==
    \/ fetch_article_pages(site.b).pc = "raised"
    \/ fetch_comments_with_selenium(site.c).pc = "raised"

CellAt(cells, k) == IF k <= Len(cells) THEN cells[k] ELSE EmptyCell

\* C9: in write_bodies_and_comments an exception raised for one article is
\* absorbed: its row is 10 empty body cells and the count 0, the later
\* articles are processed (there is a row for every url, and the row of an
\* article without exception holds its pages and its count), and all the
\* rows are written to the tab.
C9_FailureAbsorbed ==
    (pc = "done" /\ enr.urls # <<>>) =>
        /\ Len(enr.sites) = Len(enr.urls)
        /\ Len(enr.rows_data) = Len(enr.urls)
        /\ enr.wrote
        /\ \A i \in 1..Len(enr.urls) :
              LET row == enr.rows_data[i]
                  site == enr.sites[i]
              IN  /\ Len(row) >= MAX_BODY_PAGES + 1
                  /\ SiteRaisesException(site) =>
                        /\ \A k \in 1..MAX_BODY_PAGES : row[k] = <<>>
                        /\ row[MAX_BODY_PAGES + 1] = <<"count", 0>>
                        /\ \A k \in (MAX_BODY_PAGES + 2)..Len(row) : row[k] = <<>>
                  /\ ~SiteRaisesException(site) =>
                        LET b == fetch_article_pages(site.b).bodies
                            c == fetch_comments_with_selenium(site.c).comments
                        IN  /\ \A k \in 1..Len(b) : row[k] = <<"body", b[k]>>
                            /\ row[MAX_BODY_PAGES + 1] = <<"count", Len(c)>>
                  /\ \A k \in 1..Len(row) :
                        CellAt(tabs[ws].rows[i].cells, k) = row[k]

\* an article whose fetch raises, before an article with a body and comments
C9_Witness ==
    /\ pc = "done"
    /\ enr.wrote
    /\ \E i, j \in 1..Len(enr.urls) :
          /\ i < j
          /\ SiteRaisesException(enr.sites[i])
          /\ ~SiteRaisesException(enr.sites[j])
          /\ enr.rows_data[j][1] # <<>>
          /\ enr.rows_data[j][MAX_BODY_PAGES + 1] # <<"count", 0>>

\* C10, the states: an attempt is made only after fewer than 5 failed ones
\* (at most 5 attempts); the terminal error comes after exactly 5 failed
\* attempts, and the run that raised it has transferred and enriched nothing.
C10_States ==
    /\ attempt <= 5
    /\ pc = "append" => attempt < 5
    /\ pc = "crashed" =>
          /\ attempt = 5
          /\ ws = NoTab /\ promo = NoPromo /\ enr = NoEnr

\* C10, the steps: a further attempt follows a failed one only; the attempt
\* that succeeds ends the retrying; after the terminal error the run changes
\* no sheet and takes no further step.
C10_Steps ==
    /\ (pc = "append" /\ pc' = "append") =>
          attempt' = attempt + 1 /\ yahoo' \in {yahoo, <<>>}
    /\ (pc = "append" /\ yahoo' # yahoo /\ yahoo' # <<>>) => pc' = "tab"
    /\ pc \in {"tab", "transfer", "enrich", "done"} => pc' # "append"
    /\ pc = "crashed" =>
          /\ pc' \in {"crashed", "search"}
          /\ yahoo' = yahoo /\ tabs' = tabs

\* C10: write_news_list_to_source makes at most 5 attempts, stops at the
\* first that succeeds, and raises after 5 failed ones; the run then does
\* no promotion and no enrichment.
C10_BoundedRetry == []C10_States /\ [][C10_Steps]_vars

C10_Witness == pc = "crashed" /\ attempt = 5

(***************************************************************************)
(* Claims about the runs, continued.                                       *)
(***************************************************************************)
\* C11: write_news_list_to_source is idempotent: a call that returns, made
\* with the articles of the last call that returned, appends 0 rows and
\* leaves the SOURCE sheet as it was.
C11_Idempotent ==
    [][(pc = "append" /\ pc' = "tab" /\ lastAppend.articles = all_articles)
          => (yahoo' = yahoo /\ lastAppend'.rows = 0)]_vars

\* C12, the steps of a run: search, append, transfer (after the choice
\* of the tab), enrich, done, each step after the one before it and none
\* again; the searches go to done exactly when their concatenated results
\* are empty; they write no sheet.
C12_Steps ==
    /\ pc = "search" =>
          /\ pc' \in {"search", "append", "done"}
          /\ pc' = "search" <=> kwi < NUM_KEYWORDS
          /\ pc' = "done" <=> (kwi = NUM_KEYWORDS /\ all_articles' = <<>>)
          /\ yahoo' = yahoo /\ yahooExists' = yahooExists /\ tabs' = tabs
    /\ pc = "append" => pc' \in {"append", "tab", "crashed"} /\ tabs' = tabs
    /\ pc = "tab" => pc' \in {"tab", "transfer"} /\ yahoo' = yahoo /\ tabs' = tabs
    /\ pc = "transfer" => pc' \in {"transfer", "enrich"} /\ yahoo' = yahoo
    /\ pc = "enrich" => pc' = "done" /\ yahoo' = yahoo
    /\ pc \in {"done", "crashed"} =>
          pc' \in {pc, "search"} /\ yahoo' = yahoo /\ tabs' = tabs

\* C12, the runs that are done: a run without search results has appended,
\* transferred and enriched nothing; any other has appended and transferred.
C12_States ==
    /\ (pc = "done" /\ ws = NoTab) =>
          lastAppend = NoAppend /\ promo = NoPromo /\ enr = NoEnr
    /\ (pc = "done" /\ ws # NoTab) =>
          lastAppend # NoAppend /\ promo # NoPromo /\ promo.tab = ws
    /\ pc \in {"transfer", "enrich"} => lastAppend # NoAppend /\ ws # NoTab
    /\ pc = "enrich" => promo # NoPromo

\* C12: a run goes through SEARCH, APPEND_LOG, PROMOTE, ENRICH, DONE in
\* that order, no step again or out of order; with empty search results it
\* goes from SEARCH to DONE, writes no sheet and raises no error.
C12_RunOrder == []C12_States /\ [][C12_Steps]_vars

\* a run that went through all the steps and wrote enrichment rows, after a
\* run without search results
C12_Witness ==
    /\ pc = "done" /\ ws # NoTab
    /\ lastAppend.rows > 0 /\ added > 0 /\ enr.wrote

(***************************************************************************)
(* Claims about the day tab and its enrichment.                            *)
(***************************************************************************)
\* The number of comment-page columns of a header of the given width
CommentColumns(hdr) == Max(0, hdr - (BaseWidth + MAX_BODY_PAGES + 1))

\* The number of comment-page columns that the cells of a row reach
CommentCellsReach(row) == Max(0, Len(row.cells) - (MAX_BODY_PAGES + 1))

\* The comment pages that the call recorded in enr got for its i-th url
PagesOf(i) == EnrichedSite[enr.sites[i]].pages

\* C13: the header of a day tab has at least as many comment-page columns
\* as the comment-page cells of every row; a write_bodies_and_comments call
\* with a row of more comment pages than the header has columns (3 columns,
\* 5 pages) widens the header to that number, and the rows of fewer pages
\* have empty cells in the columns up to it.
C13_HeaderCovers ==
    /\ \A d \in DOMAIN tabs : \A i \in 1..Len(tabs[d].rows) :
          CommentCellsReach(tabs[d].rows[i]) <= CommentColumns(tabs[d].hdr)
    /\ (pc = "done" /\ enr.wrote) =>
          LET m == MaxPages(EnrichAll(enr.sites))
          IN  /\ m > CommentColumns(enr.head) =>
                    CommentColumns(tabs[ws].hdr) = m
              /\ \A i \in 1..Len(enr.urls) : \A k \in (PagesOf(i) + 1)..m :
                    CellAt(tabs[ws].rows[i].cells, MAX_BODY_PAGES + 1 + k)
                        = EmptyCell

\* the header had 3 comment-page columns, a row of the call has 5 comment
\* pages and another has fewer, and the header has 5 columns now
C13_Witness ==
    /\ pc = "done" /\ enr.wrote
    /\ CommentColumns(enr.head) = 3
    /\ CommentColumns(tabs[ws].hdr) = 5
    /\ \E i, j \in 1..Len(enr.urls) :
          PagesOf(i) = 5 /\ PagesOf(j) \in 1..4

(***************************************************************************)
(* Claims about the SOURCE sheet, continued.                               *)
(***************************************************************************)
IsPrefix(s, t) == Len(s) <= Len(t) /\ SubSeq(t, 1, Len(s)) = s

\* The rows that a step put below the rows the SOURCE sheet had, without
\* the header that the step wrote to a new sheet
NewRows ==
    LET below == Drop(yahoo', Len(yahoo))
    IN  IF ~yahooExists /\ below # <<>> /\ below[1] = HeaderRow
        THEN Drop(below, 1) ELSE below

\* C14, one step: the rows of the SOURCE sheet stay as they are and where
\* they are, and the rows that write_news_list_to_source puts below them
\* are search results of the run, in the order of the search results.
C14_Steps ==
    /\ IsPrefix(yahoo, yahoo')
    /\ yahoo' # yahoo =>
          /\ pc = "append"
          /\ NewRows =
                SelectSeq(all_articles, LAMBDA a : a \in Range(NewRows))

\* C14: the SOURCE sheet is append-only: a run leaves every row the sheet
\* had unchanged and at its position, so the sheet before a run is a prefix
\* of the sheet after it, and the new rows are in the order of the search
\* results.
C14_AppendOnly == [][C14_Steps]_vars

\* a call that appended rows for two search results below the rows that
\* earlier runs had appended
C14_Witness ==
    /\ pc = "tab"
    /\ lastAppend.rows >= 2
    /\ Len(yahoo) > 1 + lastAppend.rows
    /\ yahoo[1] = HeaderRow

(***************************************************************************)
(* Claims about the day tab and its enrichment, continued.                 *)
(***************************************************************************)
\* The row has enrichment cells: it was written by write_bodies_and_comments
Enriched(row) == row.cells # <<>>

\* The comment count stored in the row (column P)
StoredCount(row) == row.cells[MAX_BODY_PAGES + 1][2]

\* The number of non-empty comment-page cells of the row (columns Q on)
NonEmptyCommentCells(row) ==
    Cardinality({k \in (MAX_BODY_PAGES + 2)..Len(row.cells) :
                    row.cells[k] # EmptyCell})

\* C15: every enriched row of a day tab has exactly ceil(c / page_capacity)
\* non-empty comment-page cells, c being the comment count stored in the
\* row, also after the row was enriched again with fewer comments.
C15_CellsMatchCount ==
    \A d \in DOMAIN tabs : \A i \in 1..Len(tabs[d].rows) :
        Enriched(tabs[d].rows[i]) =>
            NonEmptyCommentCells(tabs[d].rows[i])
                = CeilDiv(StoredCount(tabs[d].rows[i]), PAGE_CAPACITY)

\* C16: write_bodies_and_comments fetches for the rows without enrichment
\* only: a row that an earlier run enriched is not fetched again and keeps
\* its cells.
C16_EnrichedOnce ==
    [][(pc = "enrich" /\ pc' = "done") =>
          /\ \A i \in 1..Len(tabs[ws].rows) :
                Enriched(tabs[ws].rows[i]) =>
                    tabs'[ws].rows[i] = tabs[ws].rows[i]
          /\ Len(enr'.sites) =
                Cardinality({i \in 1..Len(tabs[ws].rows) :
                                ~Enriched(tabs[ws].rows[i])})]_vars

\* The cells of the row that lines 428-441 build for a url whose fetches
\* meet the site: the bodies, the count, the packed comments
CellsFor(site) ==
    LET b == fetch_article_pages(site.b)
        c == fetch_comments_with_selenium(site.c)
    IN  IF b.pc = "raised" \/ c.pc = "raised"
        THEN [k \in 1..(MAX_BODY_PAGES + 1) |->
                IF k <= MAX_BODY_PAGES THEN <<>> ELSE <<"count", 0>>]
        ELSE [k \in 1..(MAX_BODY_PAGES + 1) |->
                IF k <= Len(b.bodies) THEN <<"body", b.bodies[k]>>
                ELSE IF k <= MAX_BODY_PAGES THEN <<>>
                ELSE <<"count", Len(c.comments)>>]
             \o PackComments(c.comments)

\* C19: in write_bodies_and_comments the i-th row of rows_data, written to
\* sheet row i + 1, is the row of the i-th url read from column C, also
\* after a url whose fetches raised; there are as many rows as urls.
C19_RowsAligned ==
    (pc = "done" /\ enr.urls # <<>>) =>
        /\ Len(enr.rows_data) = Len(enr.urls)
        /\ \A i \in 1..Len(enr.urls) :
              /\ tabs[ws].rows[i].url = enr.urls[i]
              /\ TrimCells(enr.rows_data[i]) = TrimCells(CellsFor(enr.sites[i]))
              /\ \A k \in 1..Len(enr.rows_data[i]) :
                    CellAt(tabs[ws].rows[i].cells, k) = enr.rows_data[i][k]

\* the fetches of a url raise, and a later url has its own bodies and
\* comments in its own row
C19_Witness ==
    /\ pc = "done" /\ enr.wrote
    /\ \E i, j \in 1..Len(enr.urls) :
          /\ i < j
          /\ SiteRaisesException(enr.sites[i])
          /\ ~SiteRaisesException(enr.sites[j])
          /\ CellsFor(enr.sites[j]) # CellsFor(enr.sites[i])
          /\ tabs[ws].rows[j].cells = TrimCells(enr.rows_data[j])

(***************************************************************************)
(* Claims about the three functions, continued.                            *)
(***************************************************************************)
\* C17: on a site that serves its last real comment page again for every
\* page number past the last, whatever the number of comments of the page,
\* fetch_comments_with_selenium leaves out the page served again: it never
\* holds more comments than the real pages have, and it returns the
\* comments of each real page once.
C17_EachRealPageOnce ==
    ClampingSource =>
        /\ Len(comments) <= csrc.size * csrc.last
        /\ cpc = "returned" => comments = Accumulated(csrc, csrc.last)

\* C18: fetch_article_pages makes at most 10 page requests and holds at
\* most 10 texts, none of them empty, whatever the site serves.
C18_AtMostTenPages ==
    /\ bfetched <= 10
    /\ Len(bodies) <= 10
    /\ \A i \in 1..Len(bodies) : bodies[i] # 0
    /\ bpc = "returned" => bfetched \in 1..10

\* a site that serves a new text for every page number: 10 requests, 10
\* texts returned
C18_Witness ==
    /\ bpc = "returned"
    /\ bsrc.tail = "fresh"
    /\ bfetched = 10 /\ Len(bodies) = 10
    /\ \A i, j \in 1..10 : i # j => bodies[i] # bodies[j]

\* C20, the states: while the loop runs, every page fetched so far added a
\* comment and fewer than 5000 are accumulated, so the next fetch is the
\* 5000th at most; the call returns after at most 5000 fetches.
C20_Bound ==
    /\ cpc = "loop" =>
          /\ cpage - 1 <= Len(comments)
          /\ Len(comments) < MAX_TOTAL_COMMENTS
          /\ cpage <= MAX_TOTAL_COMMENTS
    /\ cpc = "returned" => cpage <= MAX_TOTAL_COMMENTS

\* C20, the steps: a page that does not end the loop adds a comment
C20_Progress ==
    (cpc = "loop" /\ cpc' = "loop") =>
        /\ Len(comments') >= Len(comments) + 1
        /\ cpage' = cpage + 1

\* C20: on a site whose page fetches all return, also one that serves a new
\* page for every page number, fetch_comments_with_selenium ends after at
\* most 5000 page fetches: every page that does not end the loop adds a
\* comment, and the loop ends once 5000 are accumulated.
C20_Terminates ==
    /\ []C20_Bound
    /\ [][C20_Progress]_vars
    /\ <>(cpc = "returned")

\* a site that serves a new page for every page number: the call went on
\* page after page and ended when 5000 comments were accumulated
C20_Witness ==
    /\ cpc = "returned" /\ cstop = "cap"
    /\ csrc.after = "fresh"
    /\ cpage >= 5
    /\ Len(comments) = MAX_TOTAL_COMMENTS

====
